---- MODULE Spec2Model ----
(***************************************************************************)
(* Vendor dashboard client (frontend/src/App.js): the App component's      *)
(* state, its event handlers and the continuations of its asynchronous     *)
(* requests, together with a backend double for the REST endpoints.        *)
(*                                                                         *)
(* A JavaScript string that is split or concatenated (the view selector    *)
(* and product ids) is a sequence of one-character strings; every other    *)
(* string is a TLA+ string.  JavaScript null is the string "null".         *)
(*                                                                         *)
(* The success banner text (useState at App.js:14) is written by the       *)
(* handlers and read by the banner markup only; no handler reads it, and   *)
(* it is not part of the state below.                                      *)
(***************************************************************************)
EXTENDS Bags, FiniteSets, Integers, Sequences, TLC

VARIABLES
    currentView,   \* useState('login')                      App.js:7
    user,          \* useState(null)                         App.js:8
    token,         \* useState(localStorage.getItem('token')) App.js:9
    products,      \* useState([])                           App.js:10
    orders,        \* useState([])                           App.js:11
    loading,       \* useState(false)                        App.js:12
    error,         \* useState('')                           App.js:13
    filter,        \* OrdersView: useState('all')            App.js:761
    storage,       \* localStorage entry 'token'
    inflight,      \* bag of requests sent by fetch() and not yet resumed
    serverProducts,\* backend double: ids of the stored products, in list order
    serverOrders,  \* backend double: the stored orders, in list order
    serverLogins,  \* backend double: the number of access tokens handed out
    lastOp         \* the handler or continuation of the client that ran
                   \* last, with the requests it issued

vars == <<currentView, user, token, products, orders, loading, error,
          filter, storage, inflight, serverProducts, serverOrders, serverLogins,
          lastOp>>

-----------------------------------------------------------------------------
(* Bounds of the model *)

\* at most this many requests are in flight at once
MaxInFlight == 2
\* the backend double generates at most this many sample orders
MaxOrders == 1
\* the backend double hands out at most this many access tokens
MaxLogins == 1
\* longest order list drawn for the OrdersView specification
MaxListLen == 3

-----------------------------------------------------------------------------
(* Values *)

null == "null"

\* the n-th access token the backend double hands out, each one fresh
AccessToken(n) == <<"t1", "t2", "t3", "t4">>[n]

\* ids of the products the backend double starts with: "a" and "a-b"
ProductIds == << <<"a">>, <<"a", "-", "b">> >>

\* the vendor profile the backend double returns
VendorName == "A"

\* the statuses of the order status filter, App.js:767, without 'all'
OrderStatuses == {"pending", "confirmed", "shipped", "delivered", "cancelled"}

\* statuses of the sample orders the backend double generates
SampleStatuses == {"pending"}

\* view selector values, as character sequences
V_login     == <<"l","o","g","i","n">>
V_dashboard == <<"d","a","s","h","b","o","a","r","d">>
V_products  == <<"p","r","o","d","u","c","t","s">>
V_orders    == <<"o","r","d","e","r","s">>
V_add       == <<"a","d","d","-","p","r","o","d","u","c","t">>
V_editPfx   == <<"e","d","i","t","-","p","r","o","d","u","c","t","-">>

\* Navigation's navItems, App.js:366-370
navItems == {V_dashboard, V_products, V_orders}

\* the detail message of the backend double's error responses
ServerDetail == "Request failed"

\* the body.detail of an error response; "" stands for a body without detail
Details == {ServerDetail}

-----------------------------------------------------------------------------
(* String helpers *)

\* String.prototype.startsWith
StartsWith(s, p) == Len(s) >= Len(p) /\ SubSeq(s, 1, Len(p)) = p

\* String.prototype.split('-'): the segments between dashes
RECURSIVE SplitAcc(_, _, _, _)
SplitAcc(s, i, cur, out) ==
    IF i > Len(s) THEN Append(out, cur)
    ELSE IF s[i] = "-" THEN SplitAcc(s, i + 1, <<>>, Append(out, cur))
    ELSE SplitAcc(s, i + 1, Append(cur, s[i]), out)

Split(s) == SplitAcc(s, 1, <<>>, <<>>)

\* `edit-product-${product.id}`, App.js:211
EditView(id) == V_editPfx \o id

\* currentView.split('-')[2], App.js:225-226
EditId(view) == Split(view)[3]

\* a filter that collects the matching elements in reverse
RECURSIVE Filter_reversed(_, _)
Filter_reversed(s, st) ==
    IF s = <<>> THEN <<>>
    ELSE IF Head(s).status = st THEN Filter_reversed(Tail(s), st) \o <<Head(s)>>
    ELSE Filter_reversed(Tail(s), st)

\* Array.prototype.filter, keeping the elements in order
RECURSIVE Filter(_, _)
Filter(s, st) ==
    IF s = <<>> THEN <<>>
    ELSE IF Head(s).status = st THEN <<Head(s)>> \o Filter(Tail(s), st)
    ELSE Filter(Tail(s), st)

\* products.find(p => p.id === id), App.js:225: the sequence of matches' head,
\* or <<>> for undefined
RECURSIVE Find(_, _)
Find(s, id) ==
    IF s = <<>> THEN <<>>
    ELSE IF Head(s).id = id THEN <<Head(s)>>
    ELSE Find(Tail(s), id)

Ids(s) == {s[i].id : i \in 1..Len(s)}

-----------------------------------------------------------------------------
(* API client wrapper, App.js:23-41 *)

NoHeader == <<>>

Bearer(t) == <<"Bearer", t>>

NoBody == [kind |-> "none"]

\* the response slot of a request the backend has not answered yet
Unanswered == [st |-> "sent", detail |-> "", token |-> null, vendor |-> null,
               list |-> <<>>]

\* apiCall as written in the render whose token is tok: the request handed to
\* fetch().  optAuth is options.headers.Authorization (NoHeader when the
\* caller passes none); k is the continuation awaiting the response.
apiCall(tok, method, url, body, optAuth, k) ==
    [method  |-> method,
     url     |-> url,
     body    |-> body,
     headers |-> [ContentType   |-> "application/json",
                  Authorization |-> IF optAuth # NoHeader THEN optAuth
                                    ELSE IF tok # null THEN Bearer(tok)
                                    ELSE NoHeader],
     k       |-> k,
     resp    |-> Unanswered]

Url(path) == [path |-> path, id |-> <<>>]

\* `/api/products/${productId}`, App.js:132 and 154
ProductUrl(id) == [path |-> "/api/products/", id |-> id]

\* a continuation: the async function suspended at its await, the token of
\* the render it closed over, and its arguments (isLogin or isEdit, and the
\* product id)
Cont(fn, tok, flag, id) ==
    [fn |-> fn, token |-> tok, flag |-> flag, id |-> id]

\* errorData.detail || 'An error occurred', App.js:37
ErrorMessage(resp) ==
    IF resp.detail # "" THEN resp.detail ELSE "An error occurred"

\* the call apiCall('/api/vendor/profile') of fetchUserProfile, App.js:45
fetchUserProfile(tok) ==
    apiCall(tok, "GET", Url("/api/vendor/profile"), NoBody, NoHeader,
            Cont("fetchUserProfile", tok, FALSE, <<>>))

\* the call apiCall('/api/products') of fetchProducts, App.js:88; deleted is
\* the id of the product whose successful delete calls it (App.js:156), and
\* <<>> for every other caller
fetchProducts(tok, deleted) ==
    apiCall(tok, "GET", Url("/api/products"), NoBody, NoHeader,
            Cont("fetchProducts", tok, FALSE, deleted))

\* the call apiCall('/api/orders') of fetchOrders, App.js:97
fetchOrders(tok) ==
    apiCall(tok, "GET", Url("/api/orders"), NoBody, NoHeader,
            Cont("fetchOrders", tok, FALSE, <<>>))

-----------------------------------------------------------------------------
(* Rendering and effects *)

\* useEffect(..., [token]), App.js:17-21, after a render in which token changed
TokenEffect(tok1, tok2) ==
    IF tok2 # tok1 /\ tok2 # null THEN <<fetchUserProfile(tok2)>> ELSE <<>>

\* useEffect(..., [currentView, token]), App.js:163-170
ViewEffect(view1, tok1, view2, tok2) ==
    IF view2 # view1 \/ tok2 # tok1
    THEN (IF view2 = V_products /\ tok2 # null
          THEN <<fetchProducts(tok2, <<>>)>> ELSE <<>>)
         \o
         (IF view2 = V_orders /\ tok2 # null
          THEN <<fetchOrders(tok2)>> ELSE <<>>)
    ELSE <<>>

\* the requests the effects issue after the render that follows a handler
Effects(view1, tok1, view2, tok2) ==
    TokenEffect(tok1, tok2) \o ViewEffect(view1, tok1, view2, tok2)

\* OrdersView is mounted, App.js:172-174 and 233-235
OrdersMounted(view, tok) == tok # null /\ view = V_orders

\* filteredOrders, App.js:763-765
filteredOrders ==
    IF filter = "all" THEN orders ELSE Filter(orders, filter)

RECURSIVE SeqToBag(_)
SeqToBag(s) ==
    IF s = <<>> THEN EmptyBag ELSE SetToBag({Head(s)}) (+) SeqToBag(Tail(s))

\* The end of every handler: the view and token it leaves, the request it
\* resumed from (gone), the requests it issued itself (direct), then the
\* render and the effects of that render.  OrdersView's filter state is
\* re-created at 'all' whenever the component is mounted anew.
Commit(op, arg, gone, direct, view2, tok2) ==
    LET issued == direct \o Effects(currentView, token, view2, tok2) IN
    /\ currentView' = view2
    /\ token' = tok2
    /\ inflight' = (inflight (-) gone) (+) SeqToBag(issued)
    /\ BagCardinality(inflight') <= MaxInFlight
    /\ filter' = IF OrdersMounted(currentView, token) /\ OrdersMounted(view2, tok2)
                 THEN filter ELSE "all"
    /\ lastOp' = [op |-> op, arg |-> arg, issued |-> issued]

One(r) == SetToBag({r})

\* requests whose response has arrived and whose continuation is fn
Arrived(fn) ==
    {r \in BagToSet(inflight) : r.k.fn = fn /\ r.resp.st # "sent"}

-----------------------------------------------------------------------------
(* Initial state: the first render of App and its mount effects *)

\* what localStorage holds under 'token' when the page loads
PersistedTokens == {null, "t0"}

client == <<user, products, orders, loading, error, storage>>
server == <<serverProducts, serverOrders, serverLogins>>

Init ==
    /\ storage \in PersistedTokens
    /\ token = storage
    /\ currentView = V_login
    /\ user = null
    /\ products = <<>>
    /\ orders = <<>>
    /\ loading = FALSE
    /\ error = ""
    /\ filter = "all"
    /\ inflight = SeqToBag(Effects(V_login, null, V_login, token))
    /\ serverProducts = ProductIds
    /\ serverOrders = <<>>
    /\ serverLogins = 0
    /\ lastOp = [op |-> "mount", arg |-> NoBody,
                 issued |-> Effects(V_login, null, V_login, token)]

-----------------------------------------------------------------------------
(* Session: fetchUserProfile, handleAuth, handleLogout *)

\* fetchUserProfile that ignores a response to a request issued under a token
\* the session no longer holds
fetchUserProfile_resume_dropStale ==
    \E r \in Arrived("fetchUserProfile") :
        IF r.resp.st = "ok"
        THEN /\ user' = IF r.k.token = token THEN r.resp.vendor ELSE user
             /\ Commit("fetchUserProfile.then", r, One(r), <<>>,
                       IF r.k.token = token THEN V_dashboard ELSE currentView, token)
             /\ UNCHANGED <<products, orders, loading, error, storage, server>>
        ELSE /\ storage' = null
             /\ Commit("fetchUserProfile.catch", r, One(r), <<>>, currentView, null)
             /\ UNCHANGED <<user, products, orders, loading, error, server>>

\* fetchUserProfile whose catch leaves the stored token in place
fetchUserProfile_resume_keepStored ==
    \E r \in Arrived("fetchUserProfile") :
        IF r.resp.st = "ok"
        THEN /\ user' = r.resp.vendor
             /\ Commit("fetchUserProfile.then", r, One(r), <<>>, V_dashboard, token)
             /\ UNCHANGED <<products, orders, loading, error, storage, server>>
        ELSE /\ Commit("fetchUserProfile.catch", r, One(r), <<>>, currentView, null)
             /\ UNCHANGED <<user, products, orders, loading, error, storage, server>>

\* fetchUserProfile after its await, App.js:46-51
fetchUserProfile_resume ==
    \E r \in Arrived("fetchUserProfile") :
        IF r.resp.st = "ok"
        THEN /\ user' = r.resp.vendor
             /\ Commit("fetchUserProfile.then", r, One(r), <<>>, V_dashboard, token)
             /\ UNCHANGED <<products, orders, loading, error, storage, server>>
        ELSE /\ storage' = null
             /\ Commit("fetchUserProfile.catch", r, One(r), <<>>, currentView, null)
             /\ UNCHANGED <<user, products, orders, loading, error, server>>

\* login and register requests the backend has not yet answered
AuthPending ==
    Cardinality({r \in BagToSet(inflight) :
                    r.k.fn = "handleAuth" /\ r.resp.st = "sent"})

\* handleAuth whose submit button is not disabled while loading
handleAuth_whileLoading ==
    \E isLogin \in BOOLEAN :
        LET formData == [kind |-> "json", email |-> "a@b.com", password |-> "x"]
            endpoint == IF isLogin THEN "/api/auth/login" ELSE "/api/auth/register"
            req == apiCall(token, "POST", Url(endpoint), formData, NoHeader,
                           Cont("handleAuth", token, isLogin, <<>>))
        IN /\ token = null
           /\ serverLogins + AuthPending < MaxLogins
           /\ loading' = TRUE
           /\ error' = ""
           /\ Commit("handleAuth", req, EmptyBag, <<req>>, currentView, token)
           /\ UNCHANGED <<user, products, orders, storage, server>>

\* AuthScreen's submit: handleAuth up to its await, App.js:55-63.  The screen
\* is rendered when no token is held (172-174) and the submit button is
\* disabled while loading (342).
handleAuth ==
    \E isLogin \in BOOLEAN :
        LET formData == [kind |-> "json", email |-> "a@b.com", password |-> "x"]
            endpoint == IF isLogin THEN "/api/auth/login" ELSE "/api/auth/register"
            req == apiCall(token, "POST", Url(endpoint), formData, NoHeader,
                           Cont("handleAuth", token, isLogin, <<>>))
        IN /\ token = null
           /\ ~loading
           /\ serverLogins + AuthPending < MaxLogins
           /\ loading' = TRUE
           /\ error' = ""
           /\ Commit("handleAuth", req, EmptyBag, <<req>>, currentView, token)
           /\ UNCHANGED <<user, products, orders, storage, server>>

\* handleAuth that does not store the token it received
handleAuth_resume_noPersist ==
    \E r \in Arrived("handleAuth") :
        IF r.resp.st = "ok"
        THEN /\ user' = r.resp.vendor
             /\ loading' = FALSE
             /\ Commit("handleAuth.then", r, One(r), <<>>, V_dashboard, r.resp.token)
             /\ UNCHANGED <<products, orders, error, storage, server>>
        ELSE /\ error' = ErrorMessage(r.resp)
             /\ loading' = FALSE
             /\ Commit("handleAuth.catch", r, One(r), <<>>, currentView, token)
             /\ UNCHANGED <<user, products, orders, storage, server>>

\* handleAuth after its await, App.js:65-74
handleAuth_resume ==
    \E r \in Arrived("handleAuth") :
        IF r.resp.st = "ok"
        THEN /\ storage' = r.resp.token
             /\ user' = r.resp.vendor
             /\ loading' = FALSE
             /\ Commit("handleAuth.then", r, One(r), <<>>, V_dashboard, r.resp.token)
             /\ UNCHANGED <<products, orders, error, server>>
        ELSE /\ error' = ErrorMessage(r.resp)
             /\ loading' = FALSE
             /\ Commit("handleAuth.catch", r, One(r), <<>>, currentView, token)
             /\ UNCHANGED <<user, products, orders, storage, server>>

\* handleLogout that leaves the stored token in place
handleLogout_keepStored ==
    /\ token # null
    /\ user' = null
    /\ products' = <<>>
    /\ orders' = <<>>
    /\ Commit("handleLogout", NoBody, EmptyBag, <<>>, V_login, null)
    /\ UNCHANGED <<loading, error, storage, server>>

\* handleLogout that keeps the cached lists
handleLogout_keepLists ==
    /\ token # null
    /\ storage' = null
    /\ user' = null
    /\ Commit("handleLogout", NoBody, EmptyBag, <<>>, V_login, null)
    /\ UNCHANGED <<products, orders, loading, error, server>>

\* Navigation's Logout button, App.js:77-84
handleLogout ==
    /\ token # null
    /\ storage' = null
    /\ user' = null
    /\ products' = <<>>
    /\ orders' = <<>>
    /\ Commit("handleLogout", NoBody, EmptyBag, <<>>, V_login, null)
    /\ UNCHANGED <<loading, error, server>>

-----------------------------------------------------------------------------
(* View router: Navigation, ProductsView and ProductForm controls *)

\* a Navigation item's onClick, App.js:386 and 427-430
setCurrentView ==
    \E item \in navItems :
        /\ token # null
        /\ Commit("setCurrentView", item, EmptyBag, <<>>, item, token)
        /\ UNCHANGED <<client, server>>

\* ProductsView's Edit button, App.js:211 and 592
onEdit ==
    \E i \in 1..Len(products) :
        /\ token # null
        /\ currentView = V_products
        /\ Commit("onEdit", products[i], EmptyBag, <<>>,
                  EditView(products[i].id), token)
        /\ UNCHANGED <<client, server>>

\* ProductForm's Cancel buttons, App.js:218, 227
onCancel ==
    /\ token # null
    /\ currentView = V_add \/ StartsWith(currentView, V_editPfx)
    /\ Commit("onCancel", NoBody, EmptyBag, <<>>, V_products, token)
    /\ UNCHANGED <<client, server>>

\* ProductsView's Add Product button, App.js:559: setCurrentView is not in
\* scope in ProductsView (553), so the click throws a ReferenceError and no
\* state changes
onAddProduct ==
    /\ token # null
    /\ currentView = V_products
    /\ Commit("onAddProduct", NoBody, EmptyBag, <<>>, currentView, token)
    /\ UNCHANGED <<client, server>>

\* OrdersView's status select, App.js:774
setFilter ==
    \E f \in OrderStatuses \cup {"all"} :
        /\ OrdersMounted(currentView, token)
        /\ filter' = f
        /\ lastOp' = [op |-> "setFilter", arg |-> f, issued |-> <<>>]
        /\ UNCHANGED <<currentView, token, inflight, client, server>>

-----------------------------------------------------------------------------
(* Lists: fetchProducts, fetchOrders, generateSampleOrders *)

\* fetchProducts that adds the fetched products to the list it holds
fetchProducts_resume_merge ==
    \E r \in Arrived("fetchProducts") :
        IF r.resp.st = "ok"
        THEN /\ products' = products \o
                    SelectSeq(r.resp.list, LAMBDA p : p.id \notin Ids(products))
             /\ Commit("fetchProducts.then", r, One(r), <<>>, currentView, token)
             /\ UNCHANGED <<user, orders, loading, error, storage, server>>
        ELSE /\ error' = "Failed to fetch products"
             /\ Commit("fetchProducts.catch", r, One(r), <<>>, currentView, token)
             /\ UNCHANGED <<user, products, orders, loading, storage, server>>

\* fetchProducts after its await, App.js:89-92
fetchProducts_resume ==
    \E r \in Arrived("fetchProducts") :
        IF r.resp.st = "ok"
        THEN /\ products' = r.resp.list
             /\ Commit("fetchProducts.then", r, One(r), <<>>, currentView, token)
             /\ UNCHANGED <<user, orders, loading, error, storage, server>>
        ELSE /\ error' = "Failed to fetch products"
             /\ Commit("fetchProducts.catch", r, One(r), <<>>, currentView, token)
             /\ UNCHANGED <<user, products, orders, loading, storage, server>>

\* fetchOrders after its await, App.js:98-101
fetchOrders_resume ==
    \E r \in Arrived("fetchOrders") :
        IF r.resp.st = "ok"
        THEN /\ orders' = r.resp.list
             /\ Commit("fetchOrders.then", r, One(r), <<>>, currentView, token)
             /\ UNCHANGED <<user, products, loading, error, storage, server>>
        ELSE /\ error' = "Failed to fetch orders"
             /\ Commit("fetchOrders.catch", r, One(r), <<>>, currentView, token)
             /\ UNCHANGED <<user, products, orders, loading, storage, server>>

\* sample-order requests the backend has not yet applied
GeneratePending ==
    Cardinality({r \in BagToSet(inflight) :
                    r.k.fn = "generateSampleOrders" /\ r.resp.st = "sent"})

\* Dashboard's Generate Sample Orders button (App.js:470-471, disabled while
\* loading): generateSampleOrders up to its await, App.js:104-107
generateSampleOrders ==
    LET req == apiCall(token, "POST", Url("/api/generate-sample-orders"), NoBody,
                       NoHeader,
                       Cont("generateSampleOrders", token, FALSE, <<>>))
    IN /\ token # null
       /\ currentView = V_dashboard
       /\ ~loading
       /\ Len(serverOrders) + GeneratePending < MaxOrders
       /\ loading' = TRUE
       /\ Commit("generateSampleOrders", req, EmptyBag, <<req>>, currentView, token)
       /\ UNCHANGED <<user, products, orders, error, storage, server>>

\* generateSampleOrders after its await, App.js:108-114; fetchOrders is the
\* function of the render the handler was started in
generateSampleOrders_resume ==
    \E r \in Arrived("generateSampleOrders") :
        IF r.resp.st = "ok"
        THEN /\ loading' = FALSE
             /\ Commit("generateSampleOrders.then", r, One(r),
                       <<fetchOrders(r.k.token)>>,
                       currentView, token)
             /\ UNCHANGED <<user, products, orders, error, storage, server>>
        ELSE /\ error' = ErrorMessage(r.resp)
             /\ loading' = FALSE
             /\ Commit("generateSampleOrders.catch", r, One(r), <<>>,
                       currentView, token)
             /\ UNCHANGED <<user, products, orders, storage, server>>

-----------------------------------------------------------------------------
(* Product create, update and delete *)

\* ProductForm's submit (App.js:217, 226; button disabled while loading, 740):
\* handleProductSubmit up to its await, App.js:117-139
handleProductSubmit ==
    \E isEdit \in BOOLEAN :
        LET productId == IF isEdit THEN EditId(currentView) ELSE <<>>
            url == IF isEdit THEN ProductUrl(productId) ELSE Url("/api/products")
            method == IF isEdit THEN "PUT" ELSE "POST"
            req == apiCall(token, method, url, [kind |-> "form"],
                           IF token # null THEN Bearer(token) ELSE NoHeader,
                           Cont("handleProductSubmit", token, isEdit, productId))
        IN /\ token # null
           /\ IF isEdit THEN StartsWith(currentView, V_editPfx)
                        ELSE currentView = V_add
           /\ ~loading
           /\ loading' = TRUE
           /\ error' = ""
           /\ Commit("handleProductSubmit", req, EmptyBag, <<req>>, currentView, token)
           /\ UNCHANGED <<user, products, orders, storage, server>>

\* handleProductSubmit that does not call fetchProducts on success
handleProductSubmit_resume_noRefetch ==
    \E r \in Arrived("handleProductSubmit") :
        IF r.resp.st = "ok"
        THEN /\ loading' = FALSE
             /\ Commit("handleProductSubmit.then", r, One(r), <<>>,
                       V_products, token)
             /\ UNCHANGED <<user, products, orders, error, storage, server>>
        ELSE /\ error' = ErrorMessage(r.resp)
             /\ loading' = FALSE
             /\ Commit("handleProductSubmit.catch", r, One(r), <<>>,
                       currentView, token)
             /\ UNCHANGED <<user, products, orders, storage, server>>

\* handleProductSubmit after its await, App.js:141-148; fetchProducts is the
\* function of the render the handler was started in
handleProductSubmit_resume ==
    \E r \in Arrived("handleProductSubmit") :
        IF r.resp.st = "ok"
        THEN /\ loading' = FALSE
             /\ Commit("handleProductSubmit.then", r, One(r),
                       <<fetchProducts(r.k.token, <<>>)>>,
                       V_products, token)
             /\ UNCHANGED <<user, products, orders, error, storage, server>>
        ELSE /\ error' = ErrorMessage(r.resp)
             /\ loading' = FALSE
             /\ Commit("handleProductSubmit.catch", r, One(r), <<>>,
                       currentView, token)
             /\ UNCHANGED <<user, products, orders, storage, server>>

\* handleDeleteProduct whose catch leaves the products view
handleDeleteProduct_resume_leaveView ==
    \E r \in Arrived("handleDeleteProduct") :
        IF r.resp.st = "ok"
        THEN /\ Commit("handleDeleteProduct.then", r, One(r),
                       <<fetchProducts(r.k.token, r.k.id)>>,
                       currentView, token)
             /\ UNCHANGED <<user, products, orders, loading, error, storage, server>>
        ELSE /\ error' = ErrorMessage(r.resp)
             /\ Commit("handleDeleteProduct.catch", r, One(r), <<>>,
                       V_dashboard, token)
             /\ UNCHANGED <<user, products, orders, loading, storage, server>>

\* ProductsView's Delete button (App.js:598): handleDeleteProduct up to its
\* await, App.js:151-154; confirmed is the answer to window.confirm
handleDeleteProduct ==
    \E i \in 1..Len(products), confirmed \in BOOLEAN :
        LET productId == products[i].id
            req == apiCall(token, "DELETE", ProductUrl(productId), NoBody, NoHeader,
                           Cont("handleDeleteProduct", token, confirmed, productId))
        IN /\ token # null
           /\ currentView = V_products
           /\ Commit("handleDeleteProduct", req, EmptyBag,
                     IF confirmed THEN <<req>> ELSE <<>>, currentView, token)
           /\ UNCHANGED <<client, server>>

\* handleDeleteProduct after its await, App.js:155-159
handleDeleteProduct_resume ==
    \E r \in Arrived("handleDeleteProduct") :
        IF r.resp.st = "ok"
        THEN /\ Commit("handleDeleteProduct.then", r, One(r),
                       <<fetchProducts(r.k.token, r.k.id)>>,
                       currentView, token)
             /\ UNCHANGED <<user, products, orders, loading, error, storage, server>>
        ELSE /\ error' = ErrorMessage(r.resp)
             /\ Commit("handleDeleteProduct.catch", r, One(r), <<>>,
                       currentView, token)
             /\ UNCHANGED <<user, products, orders, loading, storage, server>>

-----------------------------------------------------------------------------
(* Backend double for the REST endpoints of section 6 of the specification *)

Ok == [Unanswered EXCEPT !.st = "ok"]

Err(detail) == [Unanswered EXCEPT !.st = "err", !.detail = detail]

\* requests the backend has not answered
Sent == {r \in BagToSet(inflight) : r.resp.st = "sent"}

Remove(ids, id) == SelectSeq(ids, LAMBDA x : x # id)

Has(ids, id) == \E i \in 1..Len(ids) : ids[i] = id

ProductList(ids) == [i \in 1..Len(ids) |-> [id |-> ids[i]]]

\* the backend answers r with resp
Answer(r, resp) ==
    /\ inflight' = (inflight (-) One(r)) (+) One([r EXCEPT !.resp = resp])
    /\ UNCHANGED <<currentView, token, filter, client, lastOp>>

\* an outcome of the backend: the response and the data it then stores
Outcome(resp, ids, ords, n) ==
    [resp |-> resp, products |-> ids, orders |-> ords, logins |-> n]

Same(resp) == {Outcome(resp, serverProducts, serverOrders, serverLogins)}

\* the outcomes of applying request r faithfully to the stored data
Outcomes(r) ==
    LET path == r.url.path IN
    IF path = "/api/auth/register"
       \/ (path = "/api/auth/login" /\ r.body.password = "x")
    THEN {Outcome([Ok EXCEPT !.token = AccessToken(serverLogins + 1),
                             !.vendor = VendorName],
                  serverProducts, serverOrders, serverLogins + 1)}
    ELSE IF path = "/api/auth/login"
    THEN Same(Err(ServerDetail))
    ELSE IF r.headers.Authorization = NoHeader
    THEN Same(Err(ServerDetail))
    ELSE IF path = "/api/vendor/profile"
    THEN Same([Ok EXCEPT !.vendor = VendorName])
    ELSE IF path = "/api/products" /\ r.method = "GET"
    THEN Same([Ok EXCEPT !.list = ProductList(serverProducts)])
    ELSE IF path = "/api/orders"
    THEN Same([Ok EXCEPT !.list = serverOrders])
    ELSE IF path = "/api/generate-sample-orders"
    THEN {Outcome(Ok, serverProducts,
                  Append(serverOrders,
                         [id |-> Len(serverOrders) + 1, status |-> s]),
                  serverLogins) :
            s \in SampleStatuses}
    ELSE IF path = "/api/products/" /\ Has(serverProducts, r.url.id)
    THEN {Outcome(Ok,
                  IF r.method = "DELETE" THEN Remove(serverProducts, r.url.id)
                  ELSE serverProducts,
                  serverOrders, serverLogins)}
    ELSE Same(Err(""))

\* the backend applies a request faithfully and answers it
BackendApply ==
    \E r \in Sent :
        \E out \in Outcomes(r) :
            /\ Answer(r, out.resp)
            /\ serverProducts' = out.products
            /\ serverOrders' = out.orders
            /\ serverLogins' = out.logins

\* a request fails for a reason outside the stored data: an expired token, a
\* server error, with or without a detail message
BackendFail ==
    \E r \in Sent, d \in Details :
        /\ Answer(r, Err(d))
        /\ UNCHANGED server

-----------------------------------------------------------------------------
(* Specifications *)

Handlers ==
    \/ fetchUserProfile_resume
    \/ handleAuth
    \/ handleAuth_resume
    \/ handleLogout
    \/ setCurrentView
    \/ onEdit
    \/ onCancel
    \/ onAddProduct
    \/ setFilter
    \/ fetchProducts_resume
    \/ fetchOrders_resume
    \/ generateSampleOrders
    \/ generateSampleOrders_resume
    \/ handleProductSubmit
    \/ handleProductSubmit_resume
    \/ handleDeleteProduct
    \/ handleDeleteProduct_resume

\* the client against a backend that may also fail any request
Next == Handlers \/ BackendApply \/ BackendFail

Spec == Init /\ [][Next]_vars

\* the client against a backend that applies every request faithfully
NextFaithful == Handlers \/ BackendApply

SpecFaithful == Init /\ [][NextFaithful]_vars

\* the OrdersView component alone, over every order list of up to
\* MaxListLen orders that a backend could have returned
OrderLists ==
    UNION {[1..n -> OrderStatuses] : n \in 0..MaxListLen}

InitOrdersView ==
    /\ storage = "t0"
    /\ token = "t0"
    /\ currentView = V_orders
    /\ user = VendorName
    /\ products = <<>>
    /\ \E sts \in OrderLists :
           orders = [i \in 1..Len(sts) |-> [id |-> i, status |-> sts[i]]]
    /\ loading = FALSE
    /\ error = ""
    /\ filter = "all"
    /\ inflight = EmptyBag
    /\ serverProducts = ProductIds
    /\ serverOrders = orders
    /\ serverLogins = 0
    /\ lastOp = [op |-> "fetchOrders.then", arg |-> NoBody, issued |-> <<>>]

SpecOrdersView == InitOrdersView /\ [][setFilter]_vars

-----------------------------------------------------------------------------
(* Claims *)

\* what App renders at the top level, App.js:172-176
Screen == IF token = null THEN "AuthScreen" ELSE "Navigation"

IsGet(r, path) == r.method = "GET" /\ r.url = Url(path)

Issued(path) == {i \in 1..Len(lastOp.issued) : IsGet(lastOp.issued[i], path)}

\* C1: when handleAuth completes on a successful login or register response,
\* the in-memory token and the stored token both equal the response's
\* access_token, the vendor profile is the response's vendor and the view is
\* 'dashboard'.
C1_AuthSuccessAuthenticates ==
    lastOp.op = "handleAuth.then" =>
        /\ token = lastOp.arg.resp.token
        /\ token # null
        /\ storage = lastOp.arg.resp.token
        /\ user = lastOp.arg.resp.vendor
        /\ currentView = V_dashboard

C1_Witness ==
    /\ lastOp.op = "handleAuth.then"
    /\ lastOp.arg.url = Url("/api/auth/login")
    /\ token = "t1"
    /\ user = VendorName

\* C2: every request a handler issues carries Authorization: Bearer <token>
\* with the token the session holds, and no Authorization header when the
\* session holds no token.
C2_RequestsCarryCurrentToken ==
    \A i \in 1..Len(lastOp.issued) :
        lastOp.issued[i].headers.Authorization =
            IF token # null THEN Bearer(token) ELSE NoHeader

\* C3: handleLogout leaves the session anonymous: no token in memory or in
\* storage, no vendor profile, empty product and order lists, view 'login'.
C3_LogoutClearsSession ==
    lastOp.op = "handleLogout" =>
        /\ token = null
        /\ storage = null
        /\ user = null
        /\ products = <<>>
        /\ orders = <<>>
        /\ currentView = V_login

C3_Witness ==
    /\ lastOp.op = "handleLogout"
    /\ token = null
    /\ serverLogins = 1
    /\ serverOrders # <<>>

\* C4: when the profile fetch fails, the in-memory token is null, the stored
\* token is removed and the login screen is rendered.
C4_ProfileFailureRevertsToAnonymous ==
    lastOp.op = "fetchUserProfile.catch" =>
        /\ token = null
        /\ storage = null
        /\ Screen = "AuthScreen"

C4_Witness ==
    /\ lastOp.op = "fetchUserProfile.catch"
    /\ lastOp.arg.k.token = "t0"
    /\ serverLogins = 0
    /\ storage = null

\* C5: in every state in which no token is held, currentView is 'login'.
C5_AnonymousViewIsLogin ==
    token = null => currentView = V_login

C6_Then == {"handleProductSubmit.then", "handleDeleteProduct.then"}

C6_Catch == {"handleProductSubmit.catch", "handleDeleteProduct.catch"}

\* C6: a successful create, update or delete issues GET /api/products, and
\* a successful create or update leaves the view 'products'; a failed one
\* sets the error banner to the message of the error response (its detail,
\* or the generic message when it has none), issues no request and leaves
\* the view as it was.
C6_ProductMutationOutcome ==
    [][ /\ lastOp'.op \in C6_Then =>
              \E i \in 1..Len(lastOp'.issued) :
                  IsGet(lastOp'.issued[i], "/api/products")
        /\ lastOp'.op = "handleProductSubmit.then" => currentView' = V_products
        /\ lastOp'.op \in C6_Catch =>
              /\ lastOp'.arg.resp.detail # "" => error' = lastOp'.arg.resp.detail
              /\ lastOp'.arg.resp.detail = "" => error' = "An error occurred"
              /\ lastOp'.issued = <<>>
              /\ currentView' = currentView ]_vars

C6_Witness ==
    /\ lastOp.op = "handleProductSubmit.catch"
    /\ lastOp.arg.resp.detail = ServerDetail
    /\ error = ServerDetail
    /\ StartsWith(currentView, V_editPfx)

\* C7: choosing Edit on a product p of the list leaves a view from which the
\* recovered id is p's id, whatever characters the id contains, so that the
\* form is populated from p and its submission issues PUT /api/products/<p.id>.
C7_EditTargetsChosenProduct ==
    lastOp.op = "onEdit" =>
        /\ EditId(currentView) = lastOp.arg.id
        /\ Find(products, EditId(currentView)) = <<lastOp.arg>>

\* products the backend no longer stores
Deleted == {ProductIds[i] : i \in 1..Len(ProductIds)}
               \ {serverProducts[i] : i \in 1..Len(serverProducts)}

\* C8: with a faithful backend, once a delete of p has succeeded and every
\* in-flight response has been delivered, the client's product list does not
\* contain p.
C8_DeletedAbsentWhenQuiet ==
    inflight = EmptyBag => Deleted \cap Ids(products) = {}

\* C8, amended: the list applied from the re-fetch that a successful delete of
\* p issues does not contain p.
C8_RefetchAfterDeleteOmitsProduct ==
    (lastOp.op = "fetchProducts.then" /\ lastOp.arg.k.id # <<>>) =>
        lastOp.arg.k.id \notin Ids(products)

C8_Witness ==
    /\ lastOp.op = "fetchProducts.then"
    /\ lastOp.arg.k.id = <<"a">>
    /\ products = <<[id |-> <<"a", "-", "b">>]>>

\* C9: a step that changes the view to 'products' or 'orders' issues a fetch
\* of that list when a token is held and no list fetch when none is held; an
\* entry into the orders view issues exactly one GET /api/orders; a change of
\* the status filter issues no request.
C9_ViewChangeFetches ==
    [][ /\ (currentView' # currentView /\ currentView' = V_products) =>
              IF token' # null
              THEN \E i \in 1..Len(lastOp'.issued) :
                       IsGet(lastOp'.issued[i], "/api/products")
              ELSE lastOp'.issued = <<>>
        /\ (currentView' # currentView /\ currentView' = V_orders) =>
              IF token' # null
              THEN Cardinality({i \in 1..Len(lastOp'.issued) :
                                   IsGet(lastOp'.issued[i], "/api/orders")}) = 1
              ELSE lastOp'.issued = <<>>
        /\ lastOp'.op = "setFilter" => lastOp'.issued = <<>> ]_vars

\* orders of the loaded list whose status is the filter
Matching == {i \in 1..Len(orders) : orders[i].status = filter}

\* C10: with a status as filter the displayed orders are exactly the orders
\* of the list with that status, in the list's order; with 'all' they are the
\* list itself.
C10_FilterSelectsMatching ==
    IF filter = "all"
    THEN filteredOrders = orders
    ELSE /\ Len(filteredOrders) = Cardinality(Matching)
         /\ \A i \in 1..Len(filteredOrders) :
                /\ filteredOrders[i].status = filter
                /\ filteredOrders[i].id \in Matching
                /\ filteredOrders[i] = orders[filteredOrders[i].id]
         /\ \A i, j \in 1..Len(filteredOrders) :
                i < j => filteredOrders[i].id < filteredOrders[j].id

C10_Witness ==
    /\ lastOp.op = "setFilter"
    /\ filter = "shipped"
    /\ Len(orders) = 3
    /\ Len(filteredOrders) = 2
    /\ orders[2].status = "pending"

\* continuations that handle a failed API call
Catches ==
    {"fetchUserProfile.catch", "handleAuth.catch", "fetchProducts.catch",
     "fetchOrders.catch", "generateSampleOrders.catch",
     "handleProductSubmit.catch", "handleDeleteProduct.catch"}

\* C11: after the failure of any API call (the profile fetch included) has
\* been handled, the error banner holds a non-empty message.
C11_FailureSetsBanner ==
    lastOp.op \in Catches => error # ""

\* C12: handling the failure of an API call other than the profile fetch
\* changes neither the token (held or stored), nor the vendor profile, the
\* current view, the product list or the order list; handling a profile-fetch
\* failure leaves the session without a token (held or stored).
C12_FailureKeepsState ==
    [][ /\ lastOp'.op \in Catches \ {"fetchUserProfile.catch"} =>
            /\ token' = token
            /\ storage' = storage
            /\ user' = user
            /\ currentView' = currentView
            /\ products' = products
            /\ orders' = orders
        /\ lastOp'.op = "fetchUserProfile.catch" =>
            /\ token' = null
            /\ storage' = null ]_vars

C12_Witness ==
    /\ lastOp.op = "handleDeleteProduct.catch"
    /\ token # null
    /\ user # null
    /\ currentView = V_products
    /\ products # <<>>
    /\ error # ""

\* requests whose handler raised the loading flag and has not yet completed
LoadingRequests ==
    {r \in BagToSet(inflight) :
        r.k.fn \in {"handleAuth", "handleProductSubmit", "generateSampleOrders"}}

\* C13: the loading flag is true exactly while a login/register, product
\* create/update or sample-order request has been issued and its handler has
\* not completed, and at most one such request is in flight at a time.
C13_LoadingWhileInFlight ==
    /\ loading <=> LoadingRequests # {}
    /\ Cardinality(LoadingRequests) <= 1
    /\ \A r \in LoadingRequests : CopiesIn(r, inflight) = 1

C13_Witness ==
    /\ loading
    /\ token = null
    /\ \E r \in LoadingRequests :
          r.k.fn = "generateSampleOrders" /\ r.resp.st = "sent"

\* C14: a successful response to a profile, product-list or order-list request
\* is applied whatever token the session holds when it is delivered, and so
\* also after a logout that followed the request.
C14_StaleResponseApplied ==
    /\ lastOp.op = "fetchUserProfile.then" => user = lastOp.arg.resp.vendor
    /\ lastOp.op = "fetchProducts.then" => products = lastOp.arg.resp.list
    /\ lastOp.op = "fetchOrders.then" => orders = lastOp.arg.resp.list

C14_Witness ==
    /\ token = null
    /\ storage = null
    /\ lastOp.op \in {"fetchUserProfile.then", "fetchProducts.then"}
    /\ lastOp.arg.k.token # null
    /\ products # <<>>
    /\ user # null

\* C15: the token held in memory equals the token stored under 'token'.
C15_TokenMatchesStorage ==
    token = storage

C15_Witness ==
    /\ lastOp.op = "handleAuth.then"
    /\ token = AccessToken(1)
    /\ storage = AccessToken(1)

\* C16: handling the failure of a profile fetch that was issued under a token
\* other than the one the session holds leaves the session's token, held and
\* stored, in place.
C16_StaleProfileFailureKeepsSession ==
    [][ (/\ lastOp'.op = "fetchUserProfile.catch"
         /\ token # null
         /\ lastOp'.arg.k.token # token)
        => (token' = token /\ storage' = storage) ]_vars

\* C17: activating the Add Product control of the products view changes the
\* current view to 'add-product'.
C17_AddProductReachable ==
    lastOp.op = "onAddProduct" => currentView = V_add

====
